---- MODULE Spec2Model ----
(***************************************************************************)
(* Ledger store of src/data_processing.py: the twelve-sheet workbook       *)
(* b.xlsx, the derivation of the dependent monetary columns                *)
(* (processar_novos_dados), the incremental write (salvar_no_excel) and    *)
(* the loader (load_and_process_data) with its column normalisation        *)
(* (sanitize_column_name, column_mapping, required_columns).               *)
(*                                                                         *)
(* Amounts are integers in cents (two-decimal values times 100);           *)
(* percentages are in hundredths of a percent (14.00 % is 1400).           *)
(* A column name is the sequence of its characters; the accented           *)
(* characters are written with ASCII mnemonics ("a_acute", "c_cedilla").   *)
(* A DataFrame is [columns |-> sequence of names, rows |-> sequence of     *)
(* tuples aligned with columns].                                           *)
(***************************************************************************)
EXTENDS Integers, Sequences, FiniteSets, TLC

VARIABLES
    store,             \* sheet label -> rows of that sheet of b.xlsx (below the header row)
    file,              \* "ok", or "corrupt" once an in-place save broke off
    op,                \* the last operation: "init", "write", "load", "calc"
    batch,             \* the DataFrame handed to the last salvar_no_excel call
    io,                \* what the file system did during the last call
    novos,             \* novos_dados after processar_novos_dados in the last write
    ret,               \* what the last salvar_no_excel call returned: "True", "False", "none"
    log,               \* the messages the last call logged, in order
    before,            \* store and file as they were when the last write started
    processed_sheets,  \* what the last load_and_process_data call returned
    submitted,         \* number of records handed to salvar_no_excel so far
    calc               \* one raw tuple, whether it has been derived, and its derived fields

vars == <<store, file, op, batch, io, novos, ret, log, before, processed_sheets,
          submitted, calc>>

(***************************************************************************)
(* Bounds of the model.                                                    *)
(***************************************************************************)
MaxSubmitted == 2
MaxExisting == 2

(***************************************************************************)
(* Cell values.                                                            *)
(***************************************************************************)
\* pd.NaT: a missing date
NaT == 0
\* numpy.nan: a missing number (an empty cell read back by read_excel)
NaN == -99999999
\* a text that pd.to_datetime cannot parse
BadDate == -1
\* a text in a numeric column (arithmetic on it raises TypeError)
BadNum == -88888888
\* a missing text cell
NoText == "<nan>"

IsNumber(v) == v # NaN /\ v # BadNum

(***************************************************************************)
(* Column names.                                                           *)
(***************************************************************************)
col_data == <<"d","a","t","a">>
col_beneficiario == <<"b","e","n","e","f","i","c","i","a","r","i","o">>
col_valor_transacionado == <<"v","a","l","o","r","_","t","r","a","n","s","a","c","i","o","n","a","d","o">>
col_valor_liberado == <<"v","a","l","o","r","_","l","i","b","e","r","a","d","o">>
col_taxa_de_juros == <<"t","a","x","a","_","d","e","_","j","u","r","o","s">>
col_comissao_agente == <<"c","o","m","i","s","s","a","o","_","a","g","e","n","t","e">>
col_extra_agente == <<"e","x","t","r","a","_","a","g","e","n","t","e">>
col_valor_dualcred == <<"v","a","l","o","r","_","d","u","a","l","c","r","e","d">>
col_nota_fiscal == <<"n","o","t","a","_","f","i","s","c","a","l">>
col_porcentagem_agente == <<"p","o","r","c","e","n","t","a","g","e","m","_","a","g","e","n","t","e">>
col_quantidade_parcelas == <<"q","u","a","n","t","i","d","a","d","e","_","p","a","r","c","e","l","a","s">>
col_agente == <<"a","g","e","n","t","e">>
col_pct_trans == <<"%","t","r","a","n","s">>
col_pct_liberad == <<"%","l","i","b","e","r","a","d">>
col_month == <<"m","o","n","t","h">>

\* the header row that setup_persistent_environment writes on every sheet
headers ==
    << col_data, col_beneficiario, col_valor_transacionado, col_valor_liberado,
       col_taxa_de_juros, col_comissao_agente, col_extra_agente, col_valor_dualcred,
       col_nota_fiscal, col_porcentagem_agente, col_quantidade_parcelas, col_agente,
       col_pct_trans, col_pct_liberad >>

\* the columns= list of combined_df.to_excel
to_excel_columns ==
    << col_data, col_beneficiario, col_valor_transacionado, col_valor_liberado,
       col_taxa_de_juros, col_comissao_agente, col_extra_agente, col_valor_dualcred,
       col_nota_fiscal, col_porcentagem_agente, col_quantidade_parcelas, col_agente,
       col_pct_trans, col_pct_liberad >>

\* required_columns of load_and_process_data
required_columns ==
    << col_data, col_beneficiario, col_valor_transacionado, col_valor_liberado,
       col_taxa_de_juros, col_comissao_agente, col_extra_agente, col_valor_dualcred,
       col_nota_fiscal, col_porcentagem_agente, col_quantidade_parcelas, col_agente,
       col_pct_trans, col_pct_liberad >>

\* the columns of a batch built by the caller: the raw fields of a transaction
input_columns ==
    << col_data, col_beneficiario, col_valor_transacionado, col_valor_liberado,
       col_taxa_de_juros, col_comissao_agente, col_extra_agente,
       col_porcentagem_agente, col_quantidade_parcelas, col_agente >>

(***************************************************************************)
(* Sequences and DataFrames.                                               *)
(***************************************************************************)
Range(s) == { s[i] : i \in DOMAIN s }

\* x in s
Contains(s, x) == \E i \in DOMAIN s : s[i] = x

\* the element of a one-element set; { f(x) : x \in { e } } evaluates e once
The(S) == CHOOSE x \in S : TRUE

\* position of the first occurrence of x in s, 0 when absent
IndexOf(s, x) ==
    IF Contains(s, x) THEN CHOOSE i \in DOMAIN s : s[i] = x /\ \A j \in 1..(i-1) : s[j] # x
    ELSE 0

\* df[name] of one row
Cell(columns, row, name) == row[IndexOf(columns, name)]

\* df[name] = values: replaces the column when present, appends it otherwise
SetCol(df, name, values) ==
    IF Contains(df.columns, name)
    THEN [ columns |-> df.columns,
           rows |-> [ i \in DOMAIN df.rows |->
                        [ df.rows[i] EXCEPT ![IndexOf(df.columns, name)] = values[i] ] ] ]
    ELSE [ columns |-> Append(df.columns, name),
           rows |-> [ i \in DOMAIN df.rows |-> Append(df.rows[i], values[i]) ] ]

\* df.reindex(columns=cols): the named columns in the given order, NaN where absent
Reindex(df, cols) ==
    [ columns |-> cols,
      rows |-> [ i \in DOMAIN df.rows |->
                   [ c \in DOMAIN cols |->
                       IF Contains(df.columns, cols[c])
                       THEN Cell(df.columns, df.rows[i], cols[c])
                       ELSE NaN ] ] ]

(***************************************************************************)
(* sanitize_column_name.                                                   *)
(***************************************************************************)
UpperCase == << "A","B","C","D","E","F","G","H","I","J","K","L","M","N","O","P","Q",
                "R","S","T","U","V","W","X","Y","Z","C_CEDILLA","A_TILDE","A_ACUTE" >>
LowerCase == << "a","b","c","d","e","f","g","h","i","j","k","l","m","n","o","p","q",
                "r","s","t","u","v","w","x","y","z","c_cedilla","a_tilde","a_acute" >>

\* the lower-case form of every upper-case character
LowerOf == [ u \in Range(UpperCase) |-> LowerCase[IndexOf(UpperCase, u)] ]

\* str.lower() of one character
LowerChar(c) == IF c \in DOMAIN LowerOf THEN LowerOf[c] ELSE c

\* str.lower()
Lower(s) == [ i \in DOMAIN s |-> LowerChar(s[i]) ]

RECURSIVE LStrip(_)
LStrip(s) == IF s # <<>> /\ Head(s) = " " THEN LStrip(Tail(s)) ELSE s

RECURSIVE RStrip(_)
RStrip(s) == IF s # <<>> /\ s[Len(s)] = " " THEN RStrip(SubSeq(s, 1, Len(s) - 1)) ELSE s

\* str.strip()
Strip(s) == RStrip(LStrip(s))

\* str.replace(old, new) for a one-character old
RECURSIVE Replace(_, _, _)
Replace(s, old, new) ==
    IF \A i \in DOMAIN s : s[i] # old THEN s
    ELSE (IF Head(s) = old THEN new ELSE <<Head(s)>>) \o Replace(Tail(s), old, new)

porcento == <<"p","o","r","c","e","n","t","o">>

sanitize_column_name(col) ==
    LET s0  == Lower(Strip(col))
        s1  == Replace(s0, " ", <<"_">>)
        s2  == Replace(s1, "c_cedilla", <<"c">>)
        s3  == Replace(s2, "a_tilde", <<"a">>)
        s4  == Replace(s3, "o_tilde", <<"o">>)
        s5  == Replace(s4, "o_acute", <<"o">>)
        s6  == Replace(s5, "o_circ", <<"o">>)
        s7  == Replace(s6, "a_grave", <<"a">>)
        s8  == Replace(s7, "e_acute", <<"e">>)
        s9  == Replace(s8, "e_circ", <<"e">>)
        s10 == Replace(s9, "u_acute", <<"u">>)
        s11 == Replace(s10, "%", porcento)
        s12 == Replace(s11, "(", <<>>)
    IN  Replace(s12, ")", <<>>)

\* column_mapping of load_and_process_data: <<old name, new name>>
column_mapping ==
    << << <<"b","e","n","e","f","i","c","i","a_acute","r","i","o">>, col_beneficiario >>,
       << <<"c","o","m","i","s","s","a_tilde","o","_","a","g","e","n","t","e">>, col_comissao_agente >>,
       << <<"c","h","a","v","e","_","p","i","x","_","c","p","f">>, <<"c","h","a","v","e","_","p","i","x">> >>,
       << <<"%","_","t","r","a","n","s">>, col_pct_trans >>,
       << <<"%","_","l","i","b","e","r","a","d">>, col_pct_liberad >>,
       << <<"m","a_acute","q","u","i","n","a">>, <<"m","a","q","u","i","n","a">> >> >>

\* df.rename(columns=column_mapping, errors='ignore') of one name
Rename(name) ==
    IF \E k \in DOMAIN column_mapping : column_mapping[k][1] = name
    THEN column_mapping[CHOOSE k \in DOMAIN column_mapping : column_mapping[k][1] = name][2]
    ELSE name

(***************************************************************************)
(* processar_novos_dados.                                                  *)
(***************************************************************************)
\* Series.round(2) / numpy round of the quotient n/d (d > 0): to the nearest
\* integer, a tie to the even one
RoundDiv(n, d) ==
    LET q == n \div d
        r == n % d
    IN  IF 2 * r < d THEN q
        ELSE IF 2 * r > d THEN q + 1
        ELSE IF q % 2 = 0 THEN q ELSE q + 1

\* a - b on floats: NaN propagates
Minus(a, b) == IF a = NaN \/ b = NaN THEN NaN ELSE a - b

\* the subtraction with the agent's extra left out
calc_valor_dualcred_sem_extra(T, R, I, C, E) == Minus(Minus(Minus(T, R), I), C)

\* (T - R - I - C - E).round(2); on cents the rounding changes nothing
calc_valor_dualcred(T, R, I, C, E) == Minus(Minus(Minus(Minus(T, R), I), C), E)

\* np.where(den > 0, (dualcred / den) * 100, 0).round(2); NaN > 0 is False
calc_pct(dualcred, den) ==
    IF den = NaN \/ ~(den > 0) THEN 0
    ELSE IF dualcred = NaN THEN NaN
    ELSE RoundDiv(dualcred * 10000, den)

\* (T * 0.032).round(2)
calc_nota_fiscal(T) == IF T = NaN THEN NaN ELSE RoundDiv(T * 32, 1000)

\* pd.DataFrame(): no columns, no rows
EmptyDataFrame == [ columns |-> <<>>, rows |-> <<>> ]

\* DataFrame.empty
IsEmpty(df) == df.rows = <<>> \/ df.columns = <<>>

raw_columns == << col_valor_transacionado, col_valor_liberado, col_taxa_de_juros,
                  col_comissao_agente, col_extra_agente >>

\* the arithmetic of processar_novos_dados raises: a column is missing (KeyError)
\* or a cell holds a text (TypeError)
DerivationRaises(df) ==
    \/ \E c \in DOMAIN raw_columns : ~Contains(df.columns, raw_columns[c])
    \/ \E i \in DOMAIN df.rows : \E c \in DOMAIN raw_columns :
          Cell(df.columns, df.rows[i], raw_columns[c]) = BadNum

\* novos_dados['valor_dualcred'] = (...).round(2)
set_valor_dualcred(df) ==
    SetCol(df, col_valor_dualcred,
           [ i \in DOMAIN df.rows |->
               calc_valor_dualcred(Cell(df.columns, df.rows[i], col_valor_transacionado),
                                   Cell(df.columns, df.rows[i], col_valor_liberado),
                                   Cell(df.columns, df.rows[i], col_taxa_de_juros),
                                   Cell(df.columns, df.rows[i], col_comissao_agente),
                                   Cell(df.columns, df.rows[i], col_extra_agente)) ])

\* novos_dados['%trans'] = np.where(...).round(2)
set_pct_trans(df) ==
    SetCol(df, col_pct_trans,
           [ i \in DOMAIN df.rows |->
               calc_pct(Cell(df.columns, df.rows[i], col_valor_dualcred),
                        Cell(df.columns, df.rows[i], col_valor_transacionado)) ])

\* novos_dados['%liberad'] = np.where(...).round(2)
set_pct_liberad(df) ==
    SetCol(df, col_pct_liberad,
           [ i \in DOMAIN df.rows |->
               calc_pct(Cell(df.columns, df.rows[i], col_valor_dualcred),
                        Cell(df.columns, df.rows[i], col_valor_liberado)) ])

\* novos_dados['nota_fiscal'] = (novos_dados['valor_transacionado'] * 0.032).round(2)
set_nota_fiscal(df) ==
    SetCol(df, col_nota_fiscal,
           [ i \in DOMAIN df.rows |->
               calc_nota_fiscal(Cell(df.columns, df.rows[i], col_valor_transacionado)) ])

processar_novos_dados(df) ==
    IF DerivationRaises(df) THEN EmptyDataFrame
    ELSE The({ set_nota_fiscal(d3) :
                 d3 \in { set_pct_liberad(d2) :
                   d2 \in { set_pct_trans(d1) :
                     d1 \in { set_valor_dualcred(df) } } } })

(***************************************************************************)
(* The workbook and load_and_process_data.                                 *)
(***************************************************************************)
\* month_names of salvar_no_excel; the sheets setup_persistent_environment creates
month_names == << "JAN", "FEV", "MAR", "ABR", "MAI", "JUN",
                  "JUL", "AGO", "SET", "OUT", "NOV", "DEZ" >>

sheet_names == Range(month_names)

\* the workbook setup_persistent_environment creates: twelve header-only sheets
EmptyStore == [ s \in sheet_names |-> <<>> ]

\* pd.read_excel of one sheet
ReadSheet(wb, sheet) == [ columns |-> headers, rows |-> wb[sheet] ]

\* for col in required_columns: if col not in df.columns: df[col] = NaT or 0.0
RECURSIVE InjectRequired(_, _)
InjectRequired(df, k) ==
    IF k > Len(required_columns) THEN df
    ELSE IF Contains(df.columns, required_columns[k]) THEN InjectRequired(df, k + 1)
    ELSE The({ InjectRequired(d, k + 1) :
                 d \in { SetCol(df, required_columns[k],
                                [ i \in DOMAIN df.rows |->
                                    IF required_columns[k] = col_data THEN NaT ELSE 0 ]) } })

\* df.columns = [sanitize_column_name(col) ...]; df.rename(columns=column_mapping)
RenameColumns(df) ==
    [ columns |-> [ i \in DOMAIN df.columns |-> Rename(sanitize_column_name(df.columns[i])) ],
      rows |-> df.rows ]

\* the loop body with the derived columns recomputed from the raw ones
NormalizeSheet_recalcula(df) ==
    The({ processar_novos_dados(n) :
            n \in { InjectRequired(d, 1) : d \in { RenameColumns(df) } } })

\* the body of the loop over sheets.items(): sanitise, rename, add what is missing
NormalizeSheet(df) == The({ InjectRequired(d, 1) : d \in { RenameColumns(df) } })

\* load_and_process_data: {} when reading the workbook raises
load_and_process_data(wb, f) ==
    IF f = "corrupt" THEN <<>>
    ELSE [ s \in sheet_names |-> NormalizeSheet(ReadSheet(wb, s)) ]

(***************************************************************************)
(* salvar_no_excel.                                                        *)
(***************************************************************************)
\* Python values that meet as dictionary keys: an int and a str are never equal
PyInt(n) == << "int", n >>
PyStr(t) == << "str", t >>

\* month_names.items(): the (key, value) pairs 1: 'JAN' ... 12: 'DEZ'
month_names_items == [ i \in DOMAIN month_names |-> << PyInt(i), PyStr(month_names[i]) >> ]

\* for sheet_name, month_num in month_names.items(): the key is bound to
\* sheet_name and the value to month_num
LoopVars(item) == [ sheet_name |-> item[1], month_num |-> item[2] ]

\* month_names[key] raises KeyError: the keys of month_names are the ints 1..12
KeyError(key) == ~(key[1] = "int" /\ key[2] \in DOMAIN month_names)

\* Series.dt.month of a date yyyymmdd
MonthOf(d) == (d \div 100) % 100

\* novos_dados['data'].dt.month.map(month_names): NaN for NaT
MonthLabel(d) == IF d = NaT THEN NoText ELSE month_names[MonthOf(d)]

\* pd.to_datetime(novos_dados['data']) raises on a text it cannot parse
ToDatetimeRaises(df) ==
    \E i \in DOMAIN df.rows : Cell(df.columns, df.rows[i], col_data) = BadDate

\* the elements of s that are not in t, in order
Without(s, t) ==
    LET Sel[k \in 0..Len(s)] ==
            IF k = 0 THEN <<>>
            ELSE IF Contains(t, s[k]) THEN Sel[k-1] ELSE Append(Sel[k-1], s[k])
    IN  Sel[Len(s)]

\* novos_dados[novos_dados['month'] == sheet_name]
RowsOfMonth(df, sheet_name) ==
    LET Sel[k \in 0..Len(df.rows)] ==
            IF k = 0 THEN <<>>
            ELSE IF Cell(df.columns, df.rows[k], col_month) = sheet_name
                 THEN Append(Sel[k-1], df.rows[k])
                 ELSE Sel[k-1]
    IN  [ columns |-> df.columns, rows |-> Sel[Len(df.rows)] ]

\* the subset of drop_duplicates
DedupKey(columns, row) ==
    << Cell(columns, row, col_data), Cell(columns, row, col_beneficiario),
       Cell(columns, row, col_valor_transacionado) >>

\* drop_duplicates(subset=[...]): the first row of every key is kept
drop_duplicates(df) ==
    [ columns |-> df.columns,
      rows |-> LET Keep[k \in 0..Len(df.rows)] ==
                     IF k = 0 THEN <<>>
                     ELSE IF \E j \in 1..(k-1) :
                               DedupKey(df.columns, df.rows[j]) = DedupKey(df.columns, df.rows[k])
                          THEN Keep[k-1]
                          ELSE Append(Keep[k-1], df.rows[k])
               IN  Keep[Len(df.rows)] ]

\* NaT sorts last
DateRank(d) == IF d = NaT THEN 99999999 ELSE d

\* sort_values(by='data').reset_index(drop=True); frames of this size are sorted
\* by insertion, which keeps the order of rows with equal dates
sort_values(df) ==
    [ columns |-> df.columns,
      rows |-> LET Rank(row) == DateRank(Cell(df.columns, row, col_data))
                   Insert(sorted, row) ==
                       LET n == Cardinality({ j \in DOMAIN sorted : Rank(sorted[j]) <= Rank(row) })
                       IN  SubSeq(sorted, 1, n) \o <<row>> \o SubSeq(sorted, n + 1, Len(sorted))
                   Sorted[k \in 0..Len(df.rows)] ==
                       IF k = 0 THEN <<>> ELSE Insert(Sorted[k-1], df.rows[k])
               IN  Sorted[Len(df.rows)] ]

\* pd.concat([a, b], ignore_index=True): the columns of a, then those only b has
concat(a, b) ==
    The({ [ columns |-> cols, rows |-> Reindex(a, cols).rows \o Reindex(b, cols).rows ] :
            cols \in { a.columns \o Without(b.columns, a.columns) } })

\* to_excel(..., columns=to_excel_columns) under if_sheet_exists='overlay': the cells
\* are written over the sheet from its first row; rows below them stay
Overlay(old, df) ==
    The({ new \o SubSeq(old, Len(new) + 1, Len(old)) :
            new \in { Reindex(df, to_excel_columns).rows } })

\* novos_dados[novos_dados['month'] == sheet_name].drop(columns=['month'])
NovosParaAba(dated, sheet_name) ==
    The({ Reindex(sel, Without(dated.columns, << col_month >>)) :
            sel \in { RowsOfMonth(dated, sheet_name) } })

\* concat, drop_duplicates, sort_values of the rows of one sheet
Combined(existing_df, novos_para_aba) ==
    The({ sort_values(deduped) :
            deduped \in { drop_duplicates(both) :
              both \in { concat(existing_df, novos_para_aba) } } })

\* one pass of the loop body over a month_names item; acc is the workbook held by
\* the writer and whether the loop has raised
LoopBody(acc, item, dated, existing_sheets) ==
    IF acc.raised THEN acc
    ELSE IF KeyError(LoopVars(item).month_num) THEN [ acc EXCEPT !.raised = TRUE ]
    ELSE The({ IF IsEmpty(novos_para_aba) THEN acc
               ELSE The({ [ acc EXCEPT !.wb[sheet_name] = Overlay(acc.wb[sheet_name], combined_df) ] :
                            combined_df \in { Combined(ReadSheet(existing_sheets, sheet_name),
                                                       novos_para_aba) } }) :
                 sheet_name \in { month_names[LoopVars(item).month_num[2]] },
                 novos_para_aba \in { NovosParaAba(dated, month_names[LoopVars(item).month_num[2]]) } })

\* the with pd.ExcelWriter(...) block: the loop over month_names.items() from item k on
RECURSIVE WriterLoop(_, _, _, _)
WriterLoop(acc, k, dated, existing_sheets) ==
    IF k > Len(month_names_items) THEN acc
    ELSE The({ WriterLoop(next, k + 1, dated, existing_sheets) :
                 next \in { LoopBody(acc, month_names_items[k], dated, existing_sheets) } })

\* what the file system does during a call
Faults == { "none", "open_fails", "save_fails" }

\* what a call that raised leaves: the except branch logs and returns False
Failed(derived, wb, f) ==
    [ ret |-> "False", store |-> wb, file |-> f, novos |-> derived,
      log |-> << "Iniciando salvamento incremental...", "Processando novos dados...",
                 "Falha ao salvar incrementalmente" >> ]

\* novos_dados['month'] = novos_dados['data'].dt.month.map(month_names)
set_month(df) ==
    SetCol(df, col_month,
           [ i \in DOMAIN df.rows |-> MonthLabel(Cell(df.columns, df.rows[i], col_data)) ])

\* salvar_no_excel from the with block on; leaving the block saves the workbook in
\* place, also when the block raised
salvar_with_writer(derived, wb, f, fault) ==
    The({ IF fault = "save_fails" THEN Failed(derived, wb, "corrupt")
          ELSE IF run.raised THEN Failed(derived, run.wb, f)
          ELSE [ ret |-> "True", store |-> run.wb, file |-> f, novos |-> derived,
                 log |-> << "Iniciando salvamento incremental...", "Processando novos dados...",
                            "Dados salvos com sucesso (incremental)" >> ] :
            run \in { WriterLoop([ wb |-> wb, raised |-> FALSE ], 1, dated, wb) :
                        dated \in { set_month(derived) } } })

\* salvar_no_excel after processar_novos_dados has returned derived
salvar_derived(derived, df, wb, f, fault) ==
    IF IsEmpty(derived)
    THEN [ ret |-> "False", store |-> wb, file |-> f, novos |-> derived,
           log |-> << "Iniciando salvamento incremental...", "Processando novos dados..." >>
                   \o (IF DerivationRaises(df) THEN << "Erro no processamento" >> ELSE <<>>)
                   \o << "Nenhum dado novo para salvar" >> ]
    ELSE IF ToDatetimeRaises(derived) THEN Failed(derived, wb, f)
    ELSE IF f = "corrupt" THEN Failed(derived, wb, f)
    ELSE IF fault = "open_fails" THEN Failed(derived, wb, f)
    ELSE salvar_with_writer(derived, wb, f, fault)

\* salvar_no_excel(df) on the workbook wb in file state f under fault:
\* what it returns, logs and leaves on disk
salvar_no_excel(df, wb, f, fault) ==
    The({ salvar_derived(derived, df, wb, f, fault) :
            derived \in { processar_novos_dados(df) } })

(***************************************************************************)
(* Inputs.                                                                 *)
(***************************************************************************)
\* one transaction as the caller builds it, in the order of input_columns
Rec(d, name, T, C) == << d, name, T, 80000, 2000, C, 1000, 0, 12, "Agente 1" >>

ValidDates == { 20240110, 20240305, 20251231 }

\* one transaction per date, and the one of 2024-03-05 again with another commission
ValidRecords ==
    { Rec(d, "Beneficiary X", 100000, 3000) : d \in ValidDates }
        \cup { Rec(20240305, "Beneficiary X", 100000, 4000) }

\* rows with a missing or unparsable date, a missing or unparsable amount
MalformedRecords ==
    { Rec(NaT, "Beneficiary X", 100000, 3000), Rec(BadDate, "Beneficiary X", 100000, 3000),
      Rec(20240305, "Beneficiary X", NaN, 3000), Rec(20240305, "Beneficiary X", BadNum, 3000) }

Records == ValidRecords \cup MalformedRecords

\* a row as a sheet of an existing workbook holds it, in the order of headers
StoredRow(d, T, dualcred, nota, pt, pl) ==
    << d, "Beneficiary X", T, 80000, 2000, 3000, 1000, dualcred, nota, 0, 12, "Agente 1", pt, pl >>

\* rows an existing b.xlsx may hold on a sheet: derived cells that agree with the
\* raw cells, and derived cells that do not
ExistingRows(sheet) ==
    IF sheet = "MAR"
    THEN { StoredRow(20240305, 100000, 14000, 3200, 1400, 1750),
           StoredRow(20240320, 50000, 0, 0, 0, 0) }
    ELSE IF sheet = "JAN" THEN { StoredRow(20240110, 100000, 14000, 3200, 1400, 1750) }
    ELSE {}

\* the contents a sheet of an existing workbook may have
ExistingSheets(sheet) ==
    { rows \in UNION { [ 1..k -> ExistingRows(sheet) ] : k \in 0..MaxExisting } :
        \A i, j \in DOMAIN rows : i # j => rows[i] # rows[j] }

\* the derived fields before the derivation has run
NoOut == [ valor_dualcred |-> 0, pct_trans |-> 0, pct_liberad |-> 0, nota_fiscal |-> 0 ]

NoCalc == [ T |-> 0, R |-> 0, I |-> 0, C |-> 0, E |-> 0, pc |-> "raw", out |-> NoOut ]

(***************************************************************************)
(* The state machine.                                                      *)
(***************************************************************************)
\* importing the module loads the workbook once (processed_sheets = load_and_process_data())
InitRest ==
    /\ file = "ok"
    /\ op = "init"
    /\ batch = [ columns |-> input_columns, rows |-> <<>> ]
    /\ io = "none"
    /\ novos = EmptyDataFrame
    /\ ret = "none"
    /\ log = <<>>
    /\ before = [ store |-> store, file |-> file ]
    /\ processed_sheets = load_and_process_data(store, "ok")
    /\ submitted = 0

\* the workbook as setup_persistent_environment has just created it
Init ==
    /\ store = EmptyStore
    /\ calc = NoCalc
    /\ InitRest

\* a workbook that existed before the program started
InitExisting ==
    /\ \E jan \in ExistingSheets("JAN"), mar \in ExistingSheets("MAR") :
          store = [ EmptyStore EXCEPT !["JAN"] = jan, !["MAR"] = mar ]
    /\ calc = NoCalc
    /\ InitRest

\* one call of salvar_no_excel
Write ==
    \E n \in 0..(MaxSubmitted - submitted) :
      \E rows \in [ 1..n -> Records ], fault \in Faults :
        \E r \in { salvar_no_excel([ columns |-> input_columns, rows |-> rows ],
                                   store, file, fault) } :
            /\ store' = r.store
            /\ file' = r.file
            /\ novos' = r.novos
            /\ ret' = r.ret
            /\ log' = r.log
            /\ batch' = [ columns |-> input_columns, rows |-> rows ]
            /\ io' = fault
            /\ before' = [ store |-> store, file |-> file ]
            /\ op' = "write"
            /\ submitted' = submitted + n
            /\ UNCHANGED << processed_sheets, calc >>

\* one call of load_and_process_data
Load ==
    /\ processed_sheets' = load_and_process_data(store, file)
    /\ op' = "load"
    /\ UNCHANGED << store, file, batch, io, novos, ret, log, before, submitted, calc >>

Next == Write \/ Load

Spec == Init /\ [][Next]_vars

SpecExisting == InitExisting /\ [][Next]_vars

(***************************************************************************)
(* The derivation on its own, over a range of raw tuples.                  *)
(***************************************************************************)
AmountsT == { -5000, 0, 1, 20000, 50000, 100000 }
AmountsR == { -100, 0, 3, 30000, 80000 }
AmountsI == { 0, 2000 }
AmountsC == { 0, 3000 }
AmountsE == { 0, 1000 }

InitCalc ==
    /\ store = EmptyStore
    /\ InitRest
    /\ calc \in [ T : AmountsT, R : AmountsR, I : AmountsI, C : AmountsC, E : AmountsE,
                  pc : { "raw" }, out : { NoOut } ]

\* processar_novos_dados on a frame of one row built from the raw tuple
Derive ==
    /\ calc.pc = "raw"
    /\ LET df == [ columns |-> input_columns,
                   rows |-> << << 20240305, "Beneficiary X", calc.T, calc.R, calc.I,
                                  calc.C, calc.E, 0, 12, "Agente 1" >> >> ]
           d  == processar_novos_dados(df)
       IN  calc' = IF IsEmpty(d) THEN [ calc EXCEPT !.pc = "raised" ]
                   ELSE [ calc EXCEPT
                            !.pc = "derived",
                            !.out = [ valor_dualcred |-> Cell(d.columns, d.rows[1], col_valor_dualcred),
                                      pct_trans |-> Cell(d.columns, d.rows[1], col_pct_trans),
                                      pct_liberad |-> Cell(d.columns, d.rows[1], col_pct_liberad),
                                      nota_fiscal |-> Cell(d.columns, d.rows[1], col_nota_fiscal) ] ]
    /\ op' = "calc"
    /\ UNCHANGED << store, file, batch, io, novos, ret, log, before, processed_sheets, submitted >>

NextCalc == Derive

SpecCalc == InitCalc /\ [][NextCalc]_vars

(***************************************************************************)
(* Properties.                                                             *)
(***************************************************************************)
Abs(x) == IF x < 0 THEN 0 - x ELSE x

\* p is n/d (d > 0) rounded to the nearest integer
IsRounded(p, n, d) == 2 * Abs(n - p * d) <= d

\* number of rows on all sheets of a workbook
RECURSIVE SumLen(_, _)
SumLen(wb, k) == IF k > Len(month_names) THEN 0 ELSE Len(wb[month_names[k]]) + SumLen(wb, k + 1)

RowCount(wb) == SumLen(wb, 1)

\* the key of a batch row and of a stored row
BatchKey(row) == DedupKey(input_columns, row)
StoredKey(row) == DedupKey(headers, row)

\* the last operation was a write that met no file-system fault, on a readable workbook
CleanWrite == op = "write" /\ io = "none" /\ before.file = "ok"

\* every row of the last batch is a well-formed transaction
ValidBatch == \A i \in DOMAIN batch.rows : batch.rows[i] \in ValidRecords

\* the row of a batch as the sheets should hold it: derived, in the order of headers
AsStored(row) ==
    Reindex(processar_novos_dados([ columns |-> input_columns, rows |-> << row >> ]),
            headers).rows[1]

\* C1: from an empty store, a write of one valid record dated in month m reports
\* success and leaves exactly one record, on the sheet of month m, the other eleven
\* sheets holding headers only.
C1_SingleRecordLands ==
    ( /\ CleanWrite
      /\ before.store = EmptyStore
      /\ Len(batch.rows) = 1
      /\ ValidBatch )
    => /\ ret = "True"
       /\ RowCount(store) = 1
       /\ Len(store[MonthLabel(batch.rows[1][1])]) = 1

C3_PartitionConsistency ==
    /\ \A s \in sheet_names : \A i \in DOMAIN store[s] :
          MonthLabel(Cell(headers, store[s][i], col_data)) = s
    /\ ( CleanWrite /\ ValidBatch ) =>
          \A i \in DOMAIN batch.rows : \A s \in sheet_names :
            ( \E j \in DOMAIN store[s] : StoredKey(store[s][j]) = BatchKey(batch.rows[i]) )
              <=> s = MonthLabel(batch.rows[i][1])

\* C4: for every raw tuple (T, R, I, C, E) the derivation does not fail and gives
\* dualcred = T-R-I-C-E, pct_transacted = 0 when T <= 0 and dualcred/T*100 rounded to
\* two places otherwise, pct_released likewise on R, invoice = T*0.032 rounded to two
\* places; (1000, 800, 20, 30, 10) gives 140.00, 14.00, 17.50, 32.00 and T = R = 0
\* gives zeros.
C4_Derivation ==
    calc.pc # "raw" =>
      /\ calc.pc = "derived"
      /\ calc.out.valor_dualcred = calc.T - calc.R - calc.I - calc.C - calc.E
      /\ IF calc.T <= 0 THEN calc.out.pct_trans = 0
         ELSE IsRounded(calc.out.pct_trans, calc.out.valor_dualcred * 10000, calc.T)
      /\ IF calc.R <= 0 THEN calc.out.pct_liberad = 0
         ELSE IsRounded(calc.out.pct_liberad, calc.out.valor_dualcred * 10000, calc.R)
      /\ IsRounded(calc.out.nota_fiscal, calc.T * 32, 1000)
      /\ ( calc.T = 100000 /\ calc.R = 80000 /\ calc.I = 2000 /\ calc.C = 3000 /\ calc.E = 1000 )
           => calc.out = [ valor_dualcred |-> 14000, pct_trans |-> 1400,
                           pct_liberad |-> 1750, nota_fiscal |-> 3200 ]
      /\ ( calc.T = 0 /\ calc.R = 0 /\ calc.I = 0 /\ calc.C = 0 /\ calc.E = 0 )
           => calc.out = [ valor_dualcred |-> 0, pct_trans |-> 0,
                           pct_liberad |-> 0, nota_fiscal |-> 0 ]

\* the derivation has run on the tuple (1000.00, 800.00, 20.00, 30.00, 10.00)
C4_Witness ==
    /\ calc.pc = "derived"
    /\ calc.T = 100000 /\ calc.R = 80000 /\ calc.I = 2000 /\ calc.C = 3000 /\ calc.E = 1000

\* a row of a batch is malformed: its date or a raw amount is missing or unparsable
Malformed(row) == row[1] \in { NaT, BadDate } \/ \E c \in 3..7 : ~IsNumber(row[c])

\* the documented defaults: 2025-01-01 for the date, 0 for a raw amount
Coerced(row) ==
    [ c \in DOMAIN row |->
        IF c = 1 /\ row[c] \in { NaT, BadDate } THEN 20250101
        ELSE IF c \in 3..7 /\ ~IsNumber(row[c]) THEN 0
        ELSE row[c] ]

\* C5: a write whose batch holds a malformed row does not fail and does not lose the
\* row: it is persisted on the sheet of its date after the date is replaced by
\* 2025-01-01 and the amount by 0, with the derived fields of the substituted values.
C5_MalformedRowCoerced ==
    ( CleanWrite /\ before.store = EmptyStore /\ \E i \in DOMAIN batch.rows : Malformed(batch.rows[i]) )
    => /\ ret = "True"
       /\ \A i \in DOMAIN batch.rows :
            Malformed(batch.rows[i]) =>
              \E j \in DOMAIN store[MonthLabel(Coerced(batch.rows[i])[1])] :
                 store[MonthLabel(Coerced(batch.rows[i])[1])][j] = AsStored(Coerced(batch.rows[i]))

\* C6: whenever a write reports failure, the persisted store is exactly as it was
\* before the call.
C6_FailureLeavesStore ==
    ( op = "write" /\ ret = "False" ) => ( store = before.store /\ file = before.file )

\* the call took the branch of lines 183-185: it reported that there was nothing to save
NothingToMerge ==
    \E i \in DOMAIN log : log[i] = "Nenhum dado novo para salvar"

\* C7: a write whose batch is empty after derivation changes nothing and reports
\* "nothing to merge", an outcome that differs from that of a failed write and that
\* a non-empty batch whose derivation failed never gets.
C7_NothingToMerge ==
    ( op = "write" /\ NothingToMerge )
    => /\ store = before.store
       /\ batch.rows = <<>>
       /\ ret # "False"

\* the records a load returned, each as the tuple of its required columns
LoadedRecords ==
    UNION { Range(Reindex(processed_sheets[s], required_columns).rows) :
              s \in DOMAIN processed_sheets }

C9_NormalizeCanonicalIsNoop ==
    ( op = "load" /\ file = "ok" )
    => \A s \in sheet_names : processed_sheets[s].columns = headers

BatchMonths ==
    { MonthLabel(batch.rows[i][1]) :
        i \in { j \in DOMAIN batch.rows : batch.rows[j][1] \in ValidDates } }

\* sheet s reads after the last operation as it read before it
SheetUntouched(s) == file = before.file /\ store[s] = before.store[s]

\* C11: after any write, every sheet whose label is not the month of a record of
\* the batch has exactly the contents it had before the write; only the sheets that
\* receive a record of the batch are overwritten.
C11_UpdateFrame ==
    op = "write" => \A s \in sheet_names : s \notin BatchMonths => SheetUntouched(s)

====
